---- MODULE Spec2Model ----
(***************************************************************************)
(* Atomic-swap core of mwc-wallet (libwallet/src/swap/swap.rs): the swap   *)
(* session's time schedule and refund amount, the canonical insertion of   *)
(* inputs and outputs into a slate, the extraction of a secret from a      *)
(* signature, the multisig common nonce and the validated publication of   *)
(* a transaction.                                                          *)
(*                                                                         *)
(* Each group of operations has its own specification (SpecTime,           *)
(* SpecSlate, ...) over the variables it uses; the variables of the other  *)
(* groups stay at their idle value.                                        *)
(***************************************************************************)
EXTENDS Integers, Naturals, Sequences, FiniteSets, Bags, TLC

VARIABLES
    swap,       \* the Swap session whose schedule is evaluated
    call,       \* the last Swap method evaluated on it: [fn, ret]
    slates,     \* the Seller's and the Buyer's copy of a slate: [inputs, outputs]
    lastAdd,    \* the last tx_add_input / tx_add_output call: [op, party, noop]
    sigs,       \* the adaptor signature, the secret k and the published signature
    extracted,  \* what the Seller got from signature_as_secret on both signatures
    multisig,   \* each party's multisig.participants
    nonceRet,   \* each party's last common_nonce call: [at, res]
    posted,     \* the node client's log of post_tx invocations
    pubRet,     \* the last publish_transaction call: [tx, fluff, ret]
    build,      \* "test" (cfg(test)) or "production" (cfg(not(test)))
    testTime,   \* CURRENT_TEST_TIME: <<>> (None) or <<time>> (Some)
    sysClock,   \* the system's UTC time, Utc::now().timestamp()
    clockOp,    \* the most recent set_testing_cur_time / reset_testing_cur_time call
    clockRet,   \* the last get_cur_time call: <<>> or <<[ret, now, after]>>
    wallet,     \* the wallet backend's stored state: [txs, outputs], two bags
    recvAccount,\* RECV_ACCOUNT: <<>> (None) or <<account name>> (Some)
    recvRet     \* the last receive_tx call: <<>> or <<[slate_id, parent_key_id, ret]>>

vars ==
    <<swap, call, slates, lastAdd, sigs, extracted, multisig, nonceRet, posted, pubRet,
      build, testTime, sysClock, clockOp, clockRet, wallet, recvAccount, recvRet>>

\* The variables each group of operations leaves alone
timeVars == <<swap, call>>

slateVars == <<slates, lastAdd>>

sigVars == <<sigs, extracted>>

nonceVars == <<multisig, nonceRet>>

publishVars == <<posted, pubRet>>

clockVars == <<build, testTime, sysClock, clockOp, clockRet>>

receiveVars == <<wallet, recvAccount, recvRet>>

(***************************************************************************)
(* u64 arithmetic.  TLC's integers are 32 bits wide, so the 64-bit word is *)
(* scaled down to WordBits bits; the operators wrap as a release build     *)
(* does (a debug build panics where they wrap).  Every statement below     *)
(* that depends on the absence of overflow says so with NoOverflow.        *)
(***************************************************************************)
WordBits == 16

Word == 2 ^ WordBits

AddU64(a, b) == (a + b) % Word

SubU64(a, b) == (a - b) % Word

MulU64(a, b) == (a * b) % Word

DivU64(a, b) == a \div b

\* `x as u64` of an i64
AsU64(x) == x % Word

MaxU64(a, b) == IF a >= b THEN a ELSE b

(***************************************************************************)
(* The Swap session: the fields the schedule and refund_amount read, and   *)
(* the fields they must not read (role, seller_lock_first, state).         *)
(***************************************************************************)
Roles == {"Seller", "Buyer"}

StateIds == {"SellerOfferCreated", "BuyerOfferCreated", "SellerWaitingForLockConfirmations"}

\* Currency::block_time_period_sec(): the currency tag carries its block period
block_time_period_sec(currency) == currency

\* Session invariant 1: primary_amount > refund_slate.fee
SessionAmountsValid(s) == s.primary_amount > s.refund_slate.fee

MaxAmount == 2

StartedVals == {-1, 1000, Word - 5000}

MessageTimeVals == {0, 3600}

RedeemTimeVals == {0, 1800}

MwcConfirmationVals == {0, 1, 10, 100}

SecondaryConfirmationVals == {0, 1, 6}

BlockTimeVals == {1, 600}

Sessions ==
    { s \in [ role : Roles,
              seller_lock_first : BOOLEAN,
              started : StartedVals,
              state : {"SellerOfferCreated"},
              primary_amount : 1..MaxAmount,
              secondary_currency : BlockTimeVals,
              refund_slate : [fee : 0..(MaxAmount - 1)],
              mwc_confirmations : MwcConfirmationVals,
              secondary_confirmations : SecondaryConfirmationVals,
              message_exchange_time_sec : MessageTimeVals,
              redeem_time_sec : RedeemTimeVals ] :
        SessionAmountsValid(s) }

\* the operands of the subtraction exchanged
Mut_refund_amount(s) == SubU64(s.refund_slate.fee, s.primary_amount)

refund_amount(s) == SubU64(s.primary_amount, s.refund_slate.fee)

get_timeinterval_mwc_lock(s) ==
    DivU64(MulU64(MulU64(s.mwc_confirmations, 60), 11), 10)

get_timeinterval_btc_lock(s) ==
    DivU64(MulU64(MulU64(s.secondary_confirmations,
                         block_time_period_sec(s.secondary_currency)), 11), 10)

get_time_start(s) == AsU64(s.started)

get_time_message_offers(s) == AddU64(get_time_start(s), s.message_exchange_time_sec)

\* the start of locking brought forward when the seller locks first
Mut_get_time_start_lock(s) ==
    IF s.seller_lock_first
    THEN get_time_message_offers(s)
    ELSE AddU64(get_time_message_offers(s),
                DivU64(MaxU64(get_timeinterval_mwc_lock(s), get_timeinterval_btc_lock(s)), 20))

get_time_start_lock(s) ==
    AddU64(get_time_message_offers(s),
           DivU64(MaxU64(get_timeinterval_mwc_lock(s), get_timeinterval_btc_lock(s)), 20))

get_time_locking(s) ==
    AddU64(get_time_message_offers(s),
           MaxU64(get_timeinterval_mwc_lock(s), get_timeinterval_btc_lock(s)))

\* the second message period left out
Mut_get_time_message_redeem(s) == get_time_locking(s)

get_time_message_redeem(s) == AddU64(get_time_locking(s), s.message_exchange_time_sec)

get_time_mwc_redeem(s) == AddU64(get_time_message_redeem(s), s.redeem_time_sec)

get_time_mwc_lock(s) == AddU64(get_time_mwc_redeem(s), get_timeinterval_mwc_lock(s))

get_time_mwc_refund(s) == AddU64(get_time_mwc_lock(s), s.redeem_time_sec)

get_time_btc_lock(s) ==
    AddU64(AddU64(AddU64(get_time_mwc_refund(s), s.redeem_time_sec),
                  get_timeinterval_mwc_lock(s)),
           get_timeinterval_btc_lock(s))

\* the limit taken from the MWC lock time instead of the BTC lock time
Mut_get_time_btc_redeem_limit(s) == SubU64(get_time_mwc_lock(s), get_timeinterval_btc_lock(s))

get_time_btc_redeem_limit(s) == SubU64(get_time_btc_lock(s), get_timeinterval_btc_lock(s))

TimeFns ==
    { "get_time_start", "get_time_message_offers", "get_time_start_lock",
      "get_time_locking", "get_time_message_redeem", "get_time_mwc_redeem",
      "get_time_mwc_lock", "get_time_mwc_refund", "get_time_btc_lock",
      "get_time_btc_redeem_limit", "get_timeinterval_mwc_lock",
      "get_timeinterval_btc_lock" }

\* The value each get_time_* / get_timeinterval_* method returns on session s
TimeOf(fn, s) ==
    CASE fn = "get_time_start" -> get_time_start(s)
      [] fn = "get_time_message_offers" -> get_time_message_offers(s)
      [] fn = "get_time_start_lock" -> get_time_start_lock(s)
      [] fn = "get_time_locking" -> get_time_locking(s)
      [] fn = "get_time_message_redeem" -> get_time_message_redeem(s)
      [] fn = "get_time_mwc_redeem" -> get_time_mwc_redeem(s)
      [] fn = "get_time_mwc_lock" -> get_time_mwc_lock(s)
      [] fn = "get_time_mwc_refund" -> get_time_mwc_refund(s)
      [] fn = "get_time_btc_lock" -> get_time_btc_lock(s)
      [] fn = "get_time_btc_redeem_limit" -> get_time_btc_redeem_limit(s)
      [] fn = "get_timeinterval_mwc_lock" -> get_timeinterval_mwc_lock(s)
      [] fn = "get_timeinterval_btc_lock" -> get_timeinterval_btc_lock(s)

NoCall == [fn |-> "none", ret |-> 0]

\* One of the time methods is evaluated on the session
CallTime ==
    /\ \E fn \in TimeFns : call' = [fn |-> fn, ret |-> TimeOf(fn, swap)]
    /\ UNCHANGED <<swap, slateVars, sigVars, nonceVars, publishVars, clockVars, receiveVars>>

\* refund_amount() is evaluated on the session
CallRefundAmount ==
    /\ call' = [fn |-> "refund_amount", ret |-> refund_amount(swap)]
    /\ UNCHANGED <<swap, slateVars, sigVars, nonceVars, publishVars, clockVars, receiveVars>>

IdleSlates == [p \in Roles |-> [inputs |-> <<>>, outputs |-> <<>>]]

IdleTime == swap = "idle" /\ call = NoCall

IdleSlate == slates = IdleSlates /\ lastAdd = "idle"

IdleSig == sigs = "idle" /\ extracted = <<>>

IdleNonce == multisig = "idle" /\ nonceRet = <<>>

IdlePublish == posted = <<>> /\ pubRet = <<>>

NoClockOp == [op |-> "none", time |-> 0]

IdleClock ==
    /\ build = "production"
    /\ testTime = <<>>
    /\ sysClock = 0
    /\ clockOp = NoClockOp
    /\ clockRet = <<>>

EmptyWallet == [parent_key_id |-> 0, txs |-> EmptyBag, outputs |-> EmptyBag]

IdleReceive == wallet = EmptyWallet /\ recvAccount = <<>> /\ recvRet = <<>>

InitTime ==
    /\ swap \in Sessions
    /\ call = NoCall
    /\ IdleSlate /\ IdleSig /\ IdleNonce /\ IdlePublish /\ IdleClock /\ IdleReceive

NextTime == CallTime \/ CallRefundAmount

SpecTime == InitTime /\ [][NextTime]_vars

(***************************************************************************)
(* Canonical insertion into a slate's transaction (tx_add_input,           *)
(* tx_add_output).  Each party holds its own copy of the slate.  A         *)
(* commitment is a number; an output carries a range proof as well.        *)
(***************************************************************************)
MaxCommit == 3

MaxOutCommit == 1

Commits == 1..MaxCommit

OutCommits == 1..MaxOutCommit

Proofs == {"proofA", "proofB"}

\* The key the natural ordering of Input and Output compares: a value computed
\* from the features and the commitment, not from the proof; distinct commitments
\* have distinct keys, in an order unrelated to the order of the commitments.
OrdKey(x) == (x.commit * 3) % 7

\* Ord::cmp of two inputs, or of two outputs
Cmp(a, b) ==
    IF OrdKey(a) < OrdKey(b) THEN "Less"
    ELSE IF OrdKey(a) = OrdKey(b) THEN "Equal" ELSE "Greater"

\* The loop of slice::binary_search: the 0-based `base` after halving `size` to 1
RECURSIVE BinarySearchBase(_, _, _, _)
BinarySearchBase(s, x, base, size) ==
    IF size <= 1 THEN base
    ELSE LET half == size \div 2
             mid == base + half
         IN BinarySearchBase(s, x, IF Cmp(s[mid + 1], x) = "Greater" THEN base ELSE mid,
                             size - half)

\* slice::binary_search: Ok(index of an equal element) or Err(insertion index), 0-based
binary_search(s, x) ==
    IF Len(s) = 0 THEN [ok |-> FALSE, idx |-> 0]
    ELSE LET base == BinarySearchBase(s, x, 0, Len(s))
             c == Cmp(s[base + 1], x)
         IN IF c = "Equal" THEN [ok |-> TRUE, idx |-> base]
            ELSE [ok |-> FALSE, idx |-> base + (IF c = "Less" THEN 1 ELSE 0)]

\* Vec::insert(idx, x), idx 0-based
VecInsert(s, idx, x) == SubSeq(s, 1, idx) \o <<x>> \o SubSeq(s, idx + 1, Len(s))

\* the input pushed at the end without looking for its place
Mut_tx_add_input_push(slate, commit) ==
    LET input == [features |-> "Plain", commit |-> commit]
    IN IF \E i \in 1..Len(slate.inputs) : slate.inputs[i] = input
       THEN slate
       ELSE [slate EXCEPT !.inputs = Append(@, input)]

\* the input inserted also when binary_search finds it
Mut_tx_add_input_dup(slate, commit) ==
    LET input == [features |-> "Plain", commit |-> commit]
        r == binary_search(slate.inputs, input)
    IN [slate EXCEPT !.inputs = VecInsert(@, r.idx, input)]

tx_add_input(slate, commit) ==
    LET input == [features |-> "Plain", commit |-> commit]
        r == binary_search(slate.inputs, input)
    IN IF r.ok THEN slate
       ELSE [slate EXCEPT !.inputs = VecInsert(@, r.idx, input)]

tx_add_output(slate, commit, proof) ==
    LET output == [features |-> "Plain", commit |-> commit, proof |-> proof]
        r == binary_search(slate.outputs, output)
    IN IF r.ok THEN slate
       ELSE [slate EXCEPT !.outputs = VecInsert(@, r.idx, output)]

\* Party p adds an input to its copy of the slate
AddInput(p) ==
    \E c \in Commits :
        /\ slates' = [slates EXCEPT ![p] = tx_add_input(@, c)]
        /\ lastAdd' = [op |-> "tx_add_input", noop |-> slates' = slates]
        /\ UNCHANGED <<timeVars, sigVars, nonceVars, publishVars, clockVars, receiveVars>>

\* Party p adds an output to its copy of the slate
AddOutput(p) ==
    \E c \in OutCommits, proof \in Proofs :
        /\ slates' = [slates EXCEPT ![p] = tx_add_output(@, c, proof)]
        /\ lastAdd' = [op |-> "tx_add_output", noop |-> slates' = slates]
        /\ UNCHANGED <<timeVars, sigVars, nonceVars, publishVars, clockVars, receiveVars>>

InitSlate ==
    /\ slates = IdleSlates
    /\ lastAdd = [op |-> "none", noop |-> FALSE]
    /\ IdleTime /\ IdleSig /\ IdleNonce /\ IdlePublish /\ IdleClock /\ IdleReceive

NextSlate ==
    \/ \E p \in Roles : AddInput(p)
    \/ \E p \in Roles : AddOutput(p)

SpecSlate == InitSlate /\ [][NextSlate]_vars

(***************************************************************************)
(* Properties of the canonical insertion (SpecSlate).                      *)
(***************************************************************************)
KeysOf(s) == { OrdKey(s[i]) : i \in 1..Len(s) }

\* strictly ascending keys: sorted by the natural ordering, no key twice
StrictlySorted(s) == \A i \in 1..(Len(s) - 1) : OrdKey(s[i]) < OrdKey(s[i + 1])

\* C3: whatever the order in which each party added its inputs, two copies holding
\* the same set of commitments hold the same input list, and every input list is
\* sorted by the natural ordering without a duplicate key.
C3_InsertionOrderIndependent ==
    /\ \A p \in Roles : StrictlySorted(slates[p].inputs)
    /\ KeysOf(slates["Seller"].inputs) = KeysOf(slates["Buyer"].inputs)
           => slates["Seller"].inputs = slates["Buyer"].inputs

\* Both copies hold all the inputs, which the commitments' own order would not sort
C3_Witness ==
    /\ Len(slates["Seller"].inputs) = MaxCommit
    /\ slates["Seller"].inputs = slates["Buyer"].inputs
    /\ \E i \in 1..(MaxCommit - 1) :
           slates["Seller"].inputs[i].commit > slates["Seller"].inputs[i + 1].commit

\* C4: adding an input, or an output, whose key the slate already holds inserts
\* nothing: the slate is left as it was, so a second insertion of the same input
\* leaves the slate as the first insertion left it.
C4_InsertionIdempotent ==
    \A p \in Roles :
        /\ \A c \in Commits :
               /\ OrdKey([commit |-> c]) \in KeysOf(slates[p].inputs)
                      => tx_add_input(slates[p], c) = slates[p]
               /\ tx_add_input(tx_add_input(slates[p], c), c) = tx_add_input(slates[p], c)
        /\ \A c \in OutCommits, proof \in Proofs :
               /\ OrdKey([commit |-> c]) \in KeysOf(slates[p].outputs)
                      => tx_add_output(slates[p], c, proof) = slates[p]
               /\ tx_add_output(tx_add_output(slates[p], c, proof), c, proof)
                      = tx_add_output(slates[p], c, proof)

\* An input was added a second time and nothing was inserted
C4_Witness ==
    /\ lastAdd = [op |-> "tx_add_input", noop |-> TRUE]
    /\ \E p \in Roles : Len(slates[p].inputs) >= 2

(***************************************************************************)
(* signature_as_secret.  A signature is its raw data: 2 * SigHalfLen bytes *)
(* (32 + 32 in the program), the nonce half and then the scalar s,         *)
(* big-endian.  Bytes are digits to the base ByteBase and scalars are      *)
(* numbers modulo CurveOrder, both scaled down from 256 and from the order *)
(* of secp256k1.                                                           *)
(***************************************************************************)
SigHalfLen == 2

ByteBase == 4

CurveOrder == 13

Bytes == 0..(ByteBase - 1)

\* The number a big-endian byte string holds
RECURSIVE BytesToInt(_)
BytesToInt(b) ==
    IF Len(b) = 0 THEN 0
    ELSE BytesToInt(SubSeq(b, 1, Len(b) - 1)) * ByteBase + b[Len(b)]

\* The big-endian byte string of length n holding v
RECURSIVE IntToBytes(_, _)
IntToBytes(v, n) ==
    IF n = 0 THEN <<>>
    ELSE Append(IntToBytes(v \div ByteBase, n - 1), v % ByteBase)

\* SecretKey::from_slice: the scalar the bytes hold, refused when it is zero or
\* not below the curve order
SecretKey_from_slice(b) ==
    LET v == BytesToInt(b)
    IN IF Len(b) = SigHalfLen /\ v > 0 /\ v < CurveOrder
       THEN [ok |-> TRUE, key |-> v, err |-> ""]
       ELSE [ok |-> FALSE, key |-> 0, err |-> "InvalidSecretKey"]

\* Signature::to_raw_data
to_raw_data(signature) == signature.raw

\* the first half of the raw data taken instead of the last
Mut_signature_as_secret(signature) ==
    SecretKey_from_slice(SubSeq(to_raw_data(signature), 1, SigHalfLen))

signature_as_secret(signature) ==
    LET ser == to_raw_data(signature)
    IN SecretKey_from_slice(SubSeq(ser, SigHalfLen + 1, Len(ser)))

\* The nonce halves a signature is given in the model
NonceHalves == { [i \in 1..SigHalfLen |-> b] : b \in {0, 1, ByteBase - 1} }

MakeSignature(nonce, s) == [raw |-> nonce \o IntToBytes(s, SigHalfLen)]

\* The Buyer completes the adaptor signature with the secret k and publishes it:
\* the published s is the adaptor signature's s plus k, modulo the curve order
PublishRedeem ==
    /\ sigs.published = <<>>
    /\ \E nonce \in NonceHalves :
           sigs' = [sigs EXCEPT !.published =
                        <<MakeSignature(nonce, (BytesToInt(SubSeq(sigs.adaptor.raw, SigHalfLen + 1,
                                                               2 * SigHalfLen)) + sigs.k) % CurveOrder)>>]
    /\ UNCHANGED <<extracted, timeVars, slateVars, nonceVars, publishVars, clockVars, receiveVars>>

\* The Seller reads the secret off the two signatures: the difference of the two
\* scalars signature_as_secret returns
ExtractSecret ==
    /\ sigs.published # <<>>
    /\ LET pub == signature_as_secret(sigs.published[1])
           adp == signature_as_secret(sigs.adaptor)
       IN extracted' = <<[published |-> pub, adaptor |-> adp,
                          secret |-> IF pub.ok /\ adp.ok
                                     THEN <<(pub.key - adp.key) % CurveOrder>>
                                     ELSE <<>>]>>
    /\ UNCHANGED <<sigs, timeVars, slateVars, nonceVars, publishVars, clockVars, receiveVars>>

InitSig ==
    /\ \E nonce \in NonceHalves, s \in 0..(CurveOrder - 1), k \in 1..(CurveOrder - 1) :
           sigs = [adaptor |-> MakeSignature(nonce, s), k |-> k, published |-> <<>>]
    /\ extracted = <<>>
    /\ IdleTime /\ IdleSlate /\ IdleNonce /\ IdlePublish /\ IdleClock /\ IdleReceive

NextSig == PublishRedeem \/ ExtractSecret

SpecSig == InitSig /\ [][NextSig]_vars

(***************************************************************************)
(* Properties of signature_as_secret (SpecSig).                            *)
(***************************************************************************)
LastHalf(signature) == SubSeq(signature.raw, SigHalfLen + 1, 2 * SigHalfLen)

\* signature_as_secret returns the scalar of the last half, whatever the first half
ReadsLastHalf(signature) ==
    LET r == signature_as_secret(signature)
    IN /\ r.ok <=> BytesToInt(LastHalf(signature)) \in 1..(CurveOrder - 1)
       /\ r.ok => r.key = BytesToInt(LastHalf(signature))
       /\ \A nonce \in NonceHalves :
              signature_as_secret([raw |-> nonce \o LastHalf(signature)]) = r

\* C5 (as stated): for any adapted signature pair, signature_as_secret(published)
\* minus signature_as_secret(adaptor) is k modulo the curve order.
C5_DifferenceIsSecretForAnyPair ==
    extracted # <<>> => extracted[1].secret = <<sigs.k>>

\* C5 (amended): signature_as_secret returns the scalar held in the last half of
\* the signature, ignoring the first half, and fails when that scalar is zero (or
\* not below the curve order); for an adapted pair on which both calls succeed,
\* the difference of the two results is k modulo the curve order.
C5_DifferenceIsSecret ==
    /\ ReadsLastHalf(sigs.adaptor)
    /\ sigs.published # <<>> => ReadsLastHalf(sigs.published[1])
    /\ extracted # <<>> =>
           /\ extracted[1].published = signature_as_secret(sigs.published[1])
           /\ extracted[1].adaptor = signature_as_secret(sigs.adaptor)
           /\ (extracted[1].published.ok /\ extracted[1].adaptor.ok)
                  => extracted[1].secret = <<sigs.k>>
           /\ extracted[1].secret # <<>> <=>
                  /\ BytesToInt(LastHalf(sigs.published[1])) # 0
                  /\ BytesToInt(LastHalf(sigs.adaptor)) # 0

\* The secret was extracted from two signatures with different first halves
C5_Witness ==
    /\ extracted # <<>>
    /\ extracted[1].secret = <<sigs.k>>
    /\ SubSeq(sigs.published[1].raw, 1, SigHalfLen) # SubSeq(sigs.adaptor.raw, 1, SigHalfLen)
    /\ extracted[1].published.key < extracted[1].adaptor.key

(***************************************************************************)
(* Swap::common_nonce over the multisig participants.  Each party holds    *)
(* its own list of the two participants; a participant's partial           *)
(* commitment is absent (<<>>) until it was created or imported.           *)
(***************************************************************************)
MaxPartialCommit == 4

PartialCommits == 1..MaxPartialCommit

ParticipantIds == {0, 1}

\* participant_id: 0 for the Seller, 1 for the Buyer
ParticipantIdOf(p) == IF p = "Seller" THEN 0 ELSE 1

OtherParty(p) == IF p = "Seller" THEN "Buyer" ELSE "Seller"

\* Hashed::hash of a commitment: SigHalfLen bytes that depend on the commitment alone
Hashed_hash(c) == IntToBytes((3 * c + 2) % (ByteBase ^ SigHalfLen), SigHalfLen)

\* Hash::to_secret_key
to_secret_key(h) == SecretKey_from_slice(h)

RECURSIVE SumKeys(_)
SumKeys(keys) == IF Len(keys) = 0 THEN 0 ELSE keys[1] + SumKeys(Tail(keys))

\* Secp256k1::blind_sum: the positive keys minus the negative keys modulo the curve
\* order, refused when the sum is not a valid secret key
blind_sum(positive, negative) ==
    SecretKey_from_slice(IntToBytes((SumKeys(positive) - SumKeys(negative)) % CurveOrder,
                                    SigHalfLen))

\* The chain of filter_map calls: the secret keys of the hashes of the partial
\* commitments that are present, in the order of the participants
RECURSIVE HashedNonces(_)
HashedNonces(participants) ==
    IF Len(participants) = 0 THEN <<>>
    ELSE LET pc == participants[1].partial_commitment
             rest == HashedNonces(Tail(participants))
         IN IF pc = <<>> THEN rest
            ELSE LET s == to_secret_key(Hashed_hash(pc[1]))
                 IN IF s.ok THEN <<s.key>> \o rest ELSE rest

MultiSigIncomplete == [ok |-> FALSE, key |-> 0, err |-> "MultiSigIncomplete"]

\* the second hash subtracted from the first instead of added to it
Mut_common_nonce_diff(ms) ==
    LET hashed_nonces == HashedNonces(ms.participants)
    IN IF Len(hashed_nonces) # 2 THEN MultiSigIncomplete
       ELSE blind_sum(<<hashed_nonces[1]>>, <<hashed_nonces[2]>>)

\* the test for two hashes weakened to a test for any hash
Mut_common_nonce_len(ms) ==
    LET hashed_nonces == HashedNonces(ms.participants)
    IN IF Len(hashed_nonces) = 0 THEN MultiSigIncomplete
       ELSE blind_sum(hashed_nonces, <<>>)

common_nonce(ms) ==
    LET hashed_nonces == HashedNonces(ms.participants)
    IN IF Len(hashed_nonces) # 2 THEN MultiSigIncomplete
       ELSE blind_sum(hashed_nonces, <<>>)

\* The position of participant `id` in party p's list
SlotOf(p, id) == multisig[p].slot[id]

\* Party p contributes its own partial commitment
create_participant(p) ==
    /\ multisig[p].participants[SlotOf(p, ParticipantIdOf(p))].partial_commitment = <<>>
    /\ \E c \in PartialCommits :
           multisig' = [multisig EXCEPT
               ![p].participants[SlotOf(p, ParticipantIdOf(p))].partial_commitment = <<c>>]
    /\ UNCHANGED <<nonceRet, timeVars, slateVars, sigVars, publishVars, clockVars, receiveVars>>

\* Party p imports the partial commitment the other party sent
import_participant(p) ==
    LET q == OtherParty(p)
        theirs == multisig[q].participants[SlotOf(q, ParticipantIdOf(q))].partial_commitment
    IN /\ theirs # <<>>
       /\ multisig[p].participants[SlotOf(p, ParticipantIdOf(q))].partial_commitment = <<>>
       /\ multisig' = [multisig EXCEPT
              ![p].participants[SlotOf(p, ParticipantIdOf(q))].partial_commitment = theirs]
       /\ UNCHANGED <<nonceRet, timeVars, slateVars, sigVars, publishVars, clockVars, receiveVars>>

\* Party p evaluates common_nonce() on its session
CallCommonNonce(p) ==
    /\ nonceRet' = [nonceRet EXCEPT
           ![p] = <<[at |-> multisig[p].participants, res |-> common_nonce(multisig[p])]>>]
    /\ UNCHANGED <<multisig, timeVars, slateVars, sigVars, publishVars, clockVars, receiveVars>>

\* The two ways of laying out the two participants in a list
Slots == { f \in [ParticipantIds -> {1, 2}] : f[0] # f[1] }

InitNonce ==
    /\ multisig \in [Roles -> [participant_id : ParticipantIds,
                               slot : Slots,
                               participants : {<<[partial_commitment |-> <<>>],
                                                 [partial_commitment |-> <<>>]>>}]]
    /\ \A p \in Roles : multisig[p].participant_id = ParticipantIdOf(p)
    /\ nonceRet = [p \in Roles |-> <<>>]
    /\ IdleTime /\ IdleSlate /\ IdleSig /\ IdlePublish /\ IdleClock /\ IdleReceive

NextNonce ==
    \/ \E p \in Roles : create_participant(p)
    \/ \E p \in Roles : import_participant(p)
    \/ \E p \in Roles : CallCommonNonce(p)

SpecNonce == InitNonce /\ [][NextNonce]_vars

(***************************************************************************)
(* Properties of common_nonce (SpecNonce).                                 *)
(***************************************************************************)
NumPresent(participants) ==
    Cardinality({ j \in 1..Len(participants) : participants[j].partial_commitment # <<>> })

\* Party p holds both partial commitments
Complete(p) == NumPresent(multisig[p].participants) = 2

\* C6: once both parties hold the two partial commitments, common_nonce() gives the
\* Seller and the Buyer the same result, whatever the position of each party's own
\* commitment in its list.
C6_CommonNonceSymmetric ==
    /\ (Complete("Seller") /\ Complete("Buyer"))
           => common_nonce(multisig["Seller"]) = common_nonce(multisig["Buyer"])
    /\ \A p \in Roles :
           (nonceRet[p] # <<>> /\ NumPresent(nonceRet[p][1].at) = 2 /\ Complete(OtherParty(p)))
               => nonceRet[p][1].res = common_nonce(multisig[OtherParty(p)])

\* Both parties computed the same scalar from lists laid out differently
C6_Witness ==
    /\ \A p \in Roles : nonceRet[p] # <<>> /\ nonceRet[p][1].res.ok
    /\ nonceRet["Seller"][1].res = nonceRet["Buyer"][1].res
    /\ multisig["Seller"].participants # multisig["Buyer"].participants
    /\ nonceRet["Seller"][1].at = multisig["Seller"].participants
    /\ nonceRet["Buyer"][1].at = multisig["Buyer"].participants

\* The sum of the hashes of the partial commitments present, modulo the curve order
SumOfHashes(participants) ==
    LET RECURSIVE Sum(_)
        Sum(ps) == IF Len(ps) = 0 THEN 0
                   ELSE (IF ps[1].partial_commitment = <<>> THEN 0
                         ELSE BytesToInt(Hashed_hash(ps[1].partial_commitment[1])))
                        + Sum(Tail(ps))
    IN Sum(participants) % CurveOrder

\* C7: common_nonce() returns MultiSigIncomplete whenever fewer than 2 partial
\* commitments are present, and returns a scalar, the sum of the commitment hashes,
\* only when both participants' partial commitments are present.
C7_IncompleteWithoutBothCommitments ==
    \A p \in Roles :
        nonceRet[p] # <<>> =>
            LET r == nonceRet[p][1]
            IN /\ NumPresent(r.at) < 2 => r.res = MultiSigIncomplete
               /\ r.res.ok => /\ NumPresent(r.at) = 2
                              /\ r.res.key = SumOfHashes(r.at)

\* common_nonce() was refused on a session holding one partial commitment only
C7_Witness ==
    \E p \in Roles :
        /\ nonceRet[p] # <<>>
        /\ NumPresent(nonceRet[p][1].at) = 1
        /\ nonceRet[p][1].res = MultiSigIncomplete

(***************************************************************************)
(* publish_transaction.  A transaction either validates as a standalone    *)
(* transaction or does not; the node client logs every post_tx it is       *)
(* handed and may fail it.                                                 *)
(***************************************************************************)
MaxTx == 3

MaxPosts == 2

Transactions == [id : 1..MaxTx, balanced : BOOLEAN]

\* Transaction::validate(Weighting::AsTransaction, verifier cache)
tx_validate(tx) == IF tx.balanced THEN [ok |-> TRUE, err |-> ""]
                   ELSE [ok |-> FALSE, err |-> "KernelSumMismatch"]

\* NodeClient::post_tx: the node logs the invocation and accepts it or fails
post_tx(log, tx, fluff, accepted) ==
    [log |-> Append(log, [tx |-> tx, fluff |-> fluff, accepted |-> accepted]),
     ret |-> IF accepted THEN "Ok" ELSE "NodeClientError"]

\* the transaction posted before it is validated
Mut_publish_transaction(log, tx, fluff, accepted) ==
    LET posting == post_tx(log, tx, fluff, accepted)
    IN IF ~tx_validate(tx).ok THEN [log |-> posting.log, ret |-> "UnexpectedAction"]
       ELSE posting

\* publish_transaction(node_client, tx, fluff): the node's log after the call and
\* the call's result; `accepted` is the node's answer, should it be asked
publish_transaction(log, tx, fluff, accepted) ==
    IF ~tx_validate(tx).ok THEN [log |-> log, ret |-> "UnexpectedAction"]
    ELSE post_tx(log, tx, fluff, accepted)

Publish ==
    /\ Len(posted) < MaxPosts
    /\ \E tx \in Transactions, fluff \in BOOLEAN, accepted \in BOOLEAN :
           LET r == publish_transaction(posted, tx, fluff, accepted)
           IN /\ posted' = r.log
              /\ pubRet' = <<[tx |-> tx, fluff |-> fluff, ret |-> r.ret]>>
    /\ UNCHANGED <<timeVars, slateVars, sigVars, nonceVars, clockVars, receiveVars>>

InitPublish ==
    /\ posted = <<>>
    /\ pubRet = <<>>
    /\ IdleTime /\ IdleSlate /\ IdleSig /\ IdleNonce /\ IdleClock /\ IdleReceive

NextPublish == Publish

SpecPublish == InitPublish /\ [][NextPublish]_vars

(***************************************************************************)
(* Properties of publish_transaction (SpecPublish).                        *)
(***************************************************************************)
\* C8: a call of publish_transaction on a transaction that does not validate
\* returns UnexpectedAction and invokes post_tx not at all; a call on one that
\* validates invokes post_tx exactly once, with the caller's transaction and fluff
\* flag, and returns an error when the node client fails.
C8_PostOnlyAfterValidation ==
    [][ LET r == pubRet'[1]
        IN /\ ~tx_validate(r.tx).ok => (r.ret = "UnexpectedAction" /\ posted' = posted)
           /\ tx_validate(r.tx).ok =>
                  /\ Len(posted') = Len(posted) + 1
                  /\ SubSeq(posted', 1, Len(posted)) = posted
                  /\ posted'[Len(posted')].tx = r.tx
                  /\ posted'[Len(posted')].fluff = r.fluff
                  /\ r.ret = (IF posted'[Len(posted')].accepted THEN "Ok" ELSE "NodeClientError")
      ]_vars

\* A transaction that does not validate was refused after another was posted
C8_Witness ==
    /\ Len(posted) = 1
    /\ pubRet # <<>>
    /\ pubRet[1].ret = "UnexpectedAction"
    /\ ~pubRet[1].tx.balanced

(***************************************************************************)
(* The clock of the swap engine: get_cur_time, and in a test build the     *)
(* process-wide CURRENT_TEST_TIME that overrides it.                       *)
(***************************************************************************)
MaxClock == 3

MaxTestTime == 2

Builds == {"test", "production"}

\* The times a test sets: before, at and after the epoch
TestTimes == (-1)..MaxTestTime

\* CURRENT_TEST_TIME.write().replace(cur_time)
set_testing_cur_time(cell, cur_time) == <<cur_time>>

\* the cell read where it is to be taken
Mut_reset_testing_cur_time(cell) == cell

\* CURRENT_TEST_TIME.write().take()
reset_testing_cur_time(cell) == <<>>

\* get_cur_time of the build b, with CURRENT_TEST_TIME = cell and Utc::now() = now
get_cur_time(b, cell, now) ==
    IF b = "test"
    THEN IF cell # <<>> THEN cell[1] ELSE now
    ELSE now

\* A test sets the time (the function exists in a test build only)
SetTestingCurTime ==
    /\ build = "test"
    /\ \E cur_time \in TestTimes :
           /\ testTime' = set_testing_cur_time(testTime, cur_time)
           /\ clockOp' = [op |-> "set", time |-> cur_time]
    /\ UNCHANGED <<build, sysClock, clockRet, timeVars, slateVars, sigVars, nonceVars,
                   publishVars, receiveVars>>

\* A test removes the override (the function exists in a test build only)
ResetTestingCurTime ==
    /\ build = "test"
    /\ testTime' = reset_testing_cur_time(testTime)
    /\ clockOp' = [op |-> "reset", time |-> 0]
    /\ UNCHANGED <<build, sysClock, clockRet, timeVars, slateVars, sigVars, nonceVars,
                   publishVars, receiveVars>>

\* get_cur_time() is called
GetCurTime ==
    /\ clockRet' = <<[ret |-> get_cur_time(build, testTime, sysClock),
                      now |-> sysClock, after |-> clockOp]>>
    /\ UNCHANGED <<build, testTime, sysClock, clockOp, timeVars, slateVars, sigVars, nonceVars,
                   publishVars, receiveVars>>

\* The system's time passes
Tick ==
    /\ sysClock < MaxClock
    /\ sysClock' = sysClock + 1
    /\ UNCHANGED <<build, testTime, clockOp, clockRet, timeVars, slateVars, sigVars, nonceVars,
                   publishVars, receiveVars>>

InitClock ==
    /\ build \in Builds
    /\ testTime = <<>>
    /\ sysClock = 0
    /\ clockOp = NoClockOp
    /\ clockRet = <<>>
    /\ IdleTime /\ IdleSlate /\ IdleSig /\ IdleNonce /\ IdlePublish /\ IdleReceive

NextClock == SetTestingCurTime \/ ResetTestingCurTime \/ GetCurTime \/ Tick

SpecClock == InitClock /\ [][NextClock]_vars

(***************************************************************************)
(* Properties of the clock (SpecClock).                                    *)
(***************************************************************************)
\* C11: in a test build get_cur_time() returns the time of the most recent
\* set_testing_cur_time when no reset_testing_cur_time followed it, and the system
\* time otherwise (never set, or reset last); in a production build it returns the
\* system time always, and no override exists.
C11_ClockOverride ==
    /\ build = "production" => (testTime = <<>> /\ clockOp = NoClockOp)
    /\ clockRet # <<>> =>
           LET r == clockRet[1]
           IN r.ret = IF build = "test" /\ r.after.op = "set" THEN r.after.time ELSE r.now

\* With the override reset last, get_cur_time() returned the system time, which
\* had moved on
C11_Witness ==
    /\ build = "test"
    /\ clockRet # <<>>
    /\ clockRet[1].after.op = "reset"
    /\ clockRet[1].ret = clockRet[1].now
    /\ clockRet[1].now > 0
    /\ testTime = <<>>

(***************************************************************************)
(* receive_tx of the foreign API.  The wallet backend stores a bag of      *)
(* transaction log entries and a bag of outputs; a parent key identifies   *)
(* an account.  Each step of receive_tx that returns through `?` can fail, *)
(* which the argument `fault` names.                                       *)
(***************************************************************************)
MaxSlate == 2

MaxLog == 6

SlateIds == 1..MaxSlate

\* The account the wallet knows besides its default one, and its parent key
AcctPaths == [acct1 |-> 1]

\* dest_acct_name: None, a known account, an unknown account
DestAcctNames == {<<>>, <<"acct1">>, <<"other">>}

\* output_amounts as a slate is delivered with: None, or the amounts of two outputs
OutputAmountsOf(slate_id) == IF slate_id = 1 THEN <<>> ELSE << <<1, 1>> >>

Faults ==
    { "none", "check_ttl", "get_acct_path", "retrieve_txs", "add_output_to_slate",
      "update_message" }

\* set_receive_account
set_receive_account(account) == <<account>>

\* get_receive_account
get_receive_account(cell) == cell

\* lines 163-177: the parent key of the destination account, or the wallet's own
\* when no account is named or the named one is unknown
SelectParentKeyId(w, cell, dest_acct_name) ==
    LET dest == IF dest_acct_name = <<>> THEN get_receive_account(cell) ELSE dest_acct_name
    IN IF dest # <<>> /\ dest[1] \in DOMAIN AcctPaths THEN AcctPaths[dest[1]]
       ELSE w.parent_key_id

\* updater::retrieve_txs(w, None, Some(slate.id), Some(&parent_key_id)): the log
\* entries of the slate under the parent key
retrieve_txs(w, slate_id, parent_key_id) ==
    { e \in BagToSet(w.txs) : e.tx_slate_id = slate_id /\ e.parent_key_id = parent_key_id }

\* tx::add_output_to_slate: the wallet stores num_outputs outputs and a log entry
\* of type TxReceived for the slate under the parent key
add_output_to_slate(w, slate_id, parent_key_id, num_outputs) ==
    [w EXCEPT
        !.txs = @ (+) SetToBag({[tx_slate_id |-> slate_id, parent_key_id |-> parent_key_id,
                                 tx_type |-> "TxReceived"]}),
        !.outputs = @ (+) ([tx_slate_id |-> slate_id, parent_key_id |-> parent_key_id]
                            :> num_outputs)]

\* The steps of receive_tx from the look-up of the log entries on
ReceiveChecked(w, slate_id, parent_key_id, output_amounts, fault, received) ==
    IF received THEN [w |-> w, ret |-> "TransactionAlreadyReceived"]
    ELSE LET num_outputs == IF output_amounts # <<>> THEN Len(output_amounts[1]) ELSE 1
         IN IF fault = "add_output_to_slate" THEN [w |-> w, ret |-> "Err(add_output_to_slate)"]
            ELSE IF fault = "update_message"
                 THEN [w |-> add_output_to_slate(w, slate_id, parent_key_id, num_outputs),
                       ret |-> "Err(update_message)"]
                 ELSE [w |-> add_output_to_slate(w, slate_id, parent_key_id, num_outputs),
                       ret |-> "Ok"]

\* the look-up of the log entries left out
Mut_receive_tx(w, cell, slate_id, dest_acct_name, output_amounts, fault) ==
    ReceiveChecked(w, slate_id, SelectParentKeyId(w, cell, dest_acct_name), output_amounts,
                   fault, FALSE)

\* receive_tx(w, .., slate, .., output_amounts, dest_acct_name, ..): the wallet's
\* stored state after the call and the call's result
receive_tx(w, cell, slate_id, dest_acct_name, output_amounts, fault) ==
    LET parent_key_id == SelectParentKeyId(w, cell, dest_acct_name)
    IN IF fault = "check_ttl" THEN [w |-> w, ret |-> "Err(check_ttl)"]
       ELSE IF fault = "get_acct_path"
               /\ (dest_acct_name # <<>> \/ get_receive_account(cell) # <<>>)
            THEN [w |-> w, ret |-> "Err(get_acct_path)"]
       ELSE IF fault = "retrieve_txs" THEN [w |-> w, ret |-> "Err(retrieve_txs)"]
       ELSE ReceiveChecked(w, slate_id, parent_key_id, output_amounts, fault,
                           \E e \in retrieve_txs(w, slate_id, parent_key_id) :
                               e.tx_type = "TxReceived")

\* A slate is delivered to the wallet
ReceiveTx ==
    /\ BagCardinality(wallet.txs) < MaxLog
    /\ \E slate_id \in SlateIds, dest_acct_name \in DestAcctNames, fault \in Faults :
           LET r == receive_tx(wallet, recvAccount, slate_id, dest_acct_name,
                               OutputAmountsOf(slate_id), fault)
           IN /\ wallet' = r.w
              /\ recvRet' = <<[slate_id |-> slate_id, dest_acct_name |-> dest_acct_name,
                               ret |-> r.ret]>>
    /\ UNCHANGED <<recvAccount, timeVars, slateVars, sigVars, nonceVars, publishVars, clockVars>>

\* The receive account of the process is set
SetReceiveAccount ==
    /\ \E account \in {"acct1", "other"} : recvAccount' = set_receive_account(account)
    /\ UNCHANGED <<wallet, recvRet, timeVars, slateVars, sigVars, nonceVars, publishVars,
                   clockVars>>

\* The wallet is new, or has sent slate 1 itself
InitReceive ==
    /\ wallet \in { [parent_key_id |-> 0, txs |-> txs, outputs |-> EmptyBag] :
                      txs \in { EmptyBag,
                                SetToBag({[tx_slate_id |-> 1, parent_key_id |-> 0,
                                           tx_type |-> "TxSent"]}) } }
    /\ recvAccount = <<>>
    /\ recvRet = <<>>
    /\ IdleTime /\ IdleSlate /\ IdleSig /\ IdleNonce /\ IdlePublish /\ IdleClock

NextReceive == ReceiveTx \/ SetReceiveAccount

SpecReceive == InitReceive /\ [][NextReceive]_vars

(***************************************************************************)
(* Properties of receive_tx (SpecReceive).                                 *)
(***************************************************************************)
ReceivedEntry(slate_id, parent_key_id) ==
    [tx_slate_id |-> slate_id, parent_key_id |-> parent_key_id, tx_type |-> "TxReceived"]

\* The wallet w holds a TxReceived entry of the slate under the parent key
AlreadyReceived(w, slate_id, parent_key_id) ==
    CopiesIn(ReceivedEntry(slate_id, parent_key_id), w.txs) > 0

\* The call recorded in recvRet' was made on a wallet that had received its slate
\* under the parent key the call selected
CallOnReceivedSlate ==
    /\ <<wallet, recvRet>>' # <<wallet, recvRet>>
    /\ AlreadyReceived(wallet, recvRet'[1].slate_id,
                       SelectParentKeyId(wallet, recvAccount, recvRet'[1].dest_acct_name))

\* Each slate was received at most once under each parent key, with the outputs
\* of one call
ReceivedOnce ==
    \A slate_id \in SlateIds, parent_key_id \in {0, 1} :
        /\ CopiesIn(ReceivedEntry(slate_id, parent_key_id), wallet.txs) <= 1
        /\ CopiesIn([tx_slate_id |-> slate_id, parent_key_id |-> parent_key_id], wallet.outputs)
               = IF AlreadyReceived(wallet, slate_id, parent_key_id)
                 THEN (IF OutputAmountsOf(slate_id) = <<>> THEN 1
                       ELSE Len(OutputAmountsOf(slate_id)[1]))
                 ELSE 0

ExactMaxInterval(s) ==
    MaxU64((s.mwc_confirmations * 60 * 11) \div 10,
           (s.secondary_confirmations * block_time_period_sec(s.secondary_currency) * 11) \div 10)

\* No step of the schedule's arithmetic leaves the u64 range: `started` is not
\* before the epoch, the products fit, and the last deadline (the largest sum) fits.
NoOverflow(s) ==
    /\ s.started >= 0
    /\ s.mwc_confirmations * 60 * 11 < Word
    /\ s.secondary_confirmations * block_time_period_sec(s.secondary_currency) * 11 < Word
    /\ s.started + 2 * s.message_exchange_time_sec + ExactMaxInterval(s)
         + 4 * s.redeem_time_sec
         + 2 * ((s.mwc_confirmations * 60 * 11) \div 10)
         + (s.secondary_confirmations * block_time_period_sec(s.secondary_currency) * 11) \div 10
         < Word

StrictSchedule(s) ==
    /\ get_time_start(s) < get_time_message_offers(s)
    /\ get_time_message_offers(s) < get_time_start_lock(s)
    /\ get_time_start_lock(s) < get_time_locking(s)
    /\ get_time_locking(s) < get_time_message_redeem(s)
    /\ get_time_message_redeem(s) < get_time_mwc_redeem(s)
    /\ get_time_mwc_redeem(s) < get_time_mwc_refund(s)
    /\ get_time_mwc_refund(s) < get_time_btc_lock(s)

\* The sessions on which every deadline is strictly later than the one before
PositivePeriods(s) ==
    /\ NoOverflow(s)
    /\ s.message_exchange_time_sec > 0
    /\ s.redeem_time_sec > 0
    /\ MaxU64(get_timeinterval_mwc_lock(s), get_timeinterval_btc_lock(s)) >= 20

\* C1 (as stated): for every session, whatever its parameters, the deadlines
\* get_time_start < get_time_message_offers < get_time_start_lock <
\* get_time_locking < get_time_message_redeem < get_time_mwc_redeem <
\* get_time_mwc_refund < get_time_btc_lock are strictly increasing.
C1_StrictForAnyValues == StrictSchedule(swap)

\* C1 (amended): the deadlines are strictly increasing on every session whose
\* message_exchange_time_sec and redeem_time_sec are positive, whose longer lock
\* interval is at least 20 seconds and whose arithmetic does not overflow u64.
C1_StrictWhenPeriodsPositive == PositivePeriods(swap) => StrictSchedule(swap)

C1_Witness == PositivePeriods(swap) /\ call.fn = "get_time_btc_lock"

\* C2 (as stated): for every session, whatever its parameters,
\* get_time_btc_redeem_limit() > get_time_mwc_refund().
C2_RedeemLimitAfterRefundForAnyValues ==
    get_time_btc_redeem_limit(swap) > get_time_mwc_refund(swap)

\* C2 (amended): get_time_btc_redeem_limit() > get_time_mwc_refund() on every
\* session with redeem_time_sec > 0 or a positive MWC lock interval, whose
\* arithmetic does not overflow u64.
C2_RedeemLimitAfterRefund ==
    (NoOverflow(swap) /\ (swap.redeem_time_sec > 0 \/ get_timeinterval_mwc_lock(swap) > 0))
        => get_time_btc_redeem_limit(swap) > get_time_mwc_refund(swap)

C2_Witness ==
    /\ NoOverflow(swap)
    /\ swap.redeem_time_sec = 0
    /\ get_timeinterval_mwc_lock(swap) > 0
    /\ call.fn = "get_time_btc_redeem_limit"
    /\ call.ret > get_time_mwc_refund(swap)

SameScheduleFields(s) ==
    { [s EXCEPT !.seller_lock_first = slf, !.role = r, !.state = st] :
        slf \in BOOLEAN, r \in Roles, st \in StateIds }
    \cup { [s EXCEPT !.primary_amount = a, !.refund_slate = [fee |-> 0]] : a \in 1..MaxAmount }

\* C10: two sessions that differ only in seller_lock_first (and in role, state or
\* amounts) get the same value from every get_time_* and get_timeinterval_* method.
C10_LockOrderDoesNotMoveDeadlines ==
    \A t \in SameScheduleFields(swap) : \A fn \in TimeFns : TimeOf(fn, t) = TimeOf(fn, swap)

C10_Witness ==
    /\ swap.seller_lock_first
    /\ call.fn = "get_time_start_lock"
    /\ call.ret = TimeOf("get_time_start_lock", [swap EXCEPT !.seller_lock_first = FALSE])
    /\ call.ret > get_time_message_offers(swap)

====
